---- MODULE Spec2Model ----
(***************************************************************************)
(* Attachment plan state machine of ai-image-intent-namer:                 *)
(* build_attachment_plan / execute_attachment_plan and the apply worker of *)
(* the desktop backend that drives them, over an abstract filesystem.      *)
(*                                                                         *)
(* A path is a triple <<dir, stem, n>>: <<"att", "a", 1>> is the file      *)
(* "a (1).png" of the attachment directory, <<"src", "a", 0>> the file     *)
(* "a.png" next to the document.  A reference source is <<scheme, stem>>.  *)
(* Writes of the plan file and of the mapping file are taken to succeed.   *)
(***************************************************************************)
EXTENDS Integers, Sequences, FiniteSets, TLC

\* ---------------------------------------------------------------- bounds
MaxRefs == 2
MaxRuns == 2

\* ---------------------------------------------------------------- inputs
MdPath == "doc.md"
NoPath == <<"none", "", 0>>
NoKey == <<"none", "", "", 0>>

SrcSet == {<<"http", "u1">>, <<"HTTPS", "u2">>, <<"", "a">>}
\* str.lower() on the scheme prefix of a source
Lower(s) == CASE s = "HTTP" -> "http"
              [] s = "HTTPS" -> "https"
              [] OTHER -> s

\* faulty variant: the scheme is compared without lower-casing
is_remote_url_CaseSensitive(src) == src[1] \in {"http", "https"}

is_remote_url(src) == Lower(src[1]) \in {"http", "https"}

Exists(files, p) == \E f \in files : f.path = p

DataAt(files, p) == (CHOOSE f \in files : f.path = p).data

_hash_file(files, p) == <<"sha256", DataAt(files, p)>>

\* first free name base, base (1), base (2), ... in the attachment directory
ensure_unique_path(files, stem) ==
    LET free(k) == ~Exists(files, <<"att", stem, k>>)
        k0 == CHOOSE k \in 0..Cardinality(files) :
                  free(k) /\ \A j \in 0..(k - 1) : ~free(j)
    IN  <<"att", stem, k0>>

\* faulty variant: only the filesystem is consulted, not the names already handed out
reserve_unique_path_FilesOnly(files, stem, reserved) ==
    LET free(k) == ~Exists(files, <<"att", stem, k>>)
        k0 == CHOOSE k \in 0..(Cardinality(files) + Cardinality(reserved)) :
                  free(k) /\ \A j \in 0..(k - 1) : ~free(j)
    IN  <<"att", stem, k0>>

reserve_unique_path(files, stem, reserved) ==
    LET free(k) == <<"att", stem, k>> \notin reserved
                   /\ ~Exists(files, <<"att", stem, k>>)
        k0 == CHOOSE k \in 0..(Cardinality(files) + Cardinality(reserved)) :
                  free(k) /\ \A j \in 0..(k - 1) : ~free(j)
    IN  <<"att", stem, k0>>

\* the direct path, else a file of the same name anywhere under the document
\* directory, else a file whose name starts with the same stem
resolve_local_image(files, src) ==
    LET direct == <<"src", src[2], 0>>
        sameName == {f.path : f \in {g \in files : g.path[2] = src[2] /\ g.path[3] = 0}}
        sameStem == {f.path : f \in {g \in files : g.path[2] = src[2]}}
    IN  IF src[2] = "" THEN NoPath
        ELSE IF Exists(files, direct) THEN direct
        ELSE IF sameName # {} THEN CHOOSE p \in sameName : TRUE
        ELSE IF sameStem # {} THEN CHOOSE p \in sameStem : TRUE
        ELSE NoPath

\* rename, or copy + unlink when rename fails; out is what the OS let happen
\* (the unlink after a successful copy is taken to succeed)
_try_move_file(files, src, dest, out) ==
    LET d == DataAt(files, src)
        others == {f \in files : f.path # dest}
    IN  IF out = "moved"
        THEN {f \in others : f.path # src} \cup {[path |-> dest, data |-> d]}
        ELSE files

MoveOutcomes == {"moved", "failed"}
DownloadOutcomes == {"ok", "failed"}
HashOutcomes == {"ok", "raise"}

\* ------------------------------------------------------------ the mapping
HasKey(m, key) == \E e \in m : e.key = key

update_mapping_target(m, key, target, files) ==
    IF key = NoKey \/ ~HasKey(m, key) THEN m
    ELSE {e \in m : e.key # key}
         \cup {[key |-> key, target |-> target, hash |-> _hash_file(files, target)]}

\* --------------------------------------------------------------- the plan
EmptyPlan == [document |-> "none", items |-> <<>>, completed |-> FALSE,
              completedAt |-> FALSE]

ErrorItem(i, src) ==
    [index |-> i, original_src |-> src, action |-> "error", status |-> "error",
     error |-> "source_missing", original_abs |-> NoPath, target_abs |-> NoPath,
     mapping_key |-> NoKey, logs |-> <<>>, completed_at |-> FALSE]

PlanItem(i, src, action, original_abs, target, key) ==
    [index |-> i, original_src |-> src, action |-> action, status |-> "pending",
     error |-> "", original_abs |-> original_abs, target_abs |-> target,
     mapping_key |-> key, logs |-> <<>>, completed_at |-> FALSE]

RECURSIVE BuildItems(_, _, _, _, _, _)
BuildItems(i, rs, bases, skip, files, st) ==
    IF i > Len(rs) THEN st.items
    ELSE IF i \in skip THEN BuildItems(i + 1, rs, bases, skip, files, st)
    ELSE IF is_remote_url(rs[i]) THEN
        LET t == reserve_unique_path(files, bases[i], st.reserved)
            it == PlanItem(i, rs[i], "download", NoPath, t,
                           <<"remote", rs[i][1], rs[i][2], 0>>)
        IN  BuildItems(i + 1, rs, bases, skip, files,
                       [items |-> Append(st.items, it),
                        reserved |-> st.reserved \cup {t}])
    ELSE LET sp == resolve_local_image(files, rs[i])
         IN  IF sp = NoPath THEN
                 BuildItems(i + 1, rs, bases, skip, files,
                            [items |-> Append(st.items, ErrorItem(i, rs[i])),
                             reserved |-> st.reserved])
             ELSE
                 LET t == reserve_unique_path(files, bases[i], st.reserved)
                     it == PlanItem(i, rs[i], "move", sp, t,
                                    <<"local", sp[1], sp[2], sp[3]>>)
                 IN  BuildItems(i + 1, rs, bases, skip, files,
                                [items |-> Append(st.items, it),
                                 reserved |-> st.reserved \cup {t}])

build_attachment_plan(rs, bases, skip, files) ==
    [document |-> MdPath,
     items |-> BuildItems(1, rs, bases, skip, files,
                          [items |-> <<>>, reserved |-> {}]),
     completed |-> FALSE, completedAt |-> FALSE]

Statuses(p) == [i \in 1..Len(p.items) |-> p.items[i].status]

SetItem(p, i, it) == [p EXCEPT !.items[i] = it]

\* ------------------------------------------------------------------ state
VARIABLES
    refs,           \* sources of the document's image references, in order
    bases,          \* final_base of each reference (name_with_template result)
    skipSet,        \* skip_indexes of the apply request
    fs,             \* the files on disk: set of [path, data]
    planFile,       \* content of .image_plan.json (EmptyPlan when absent)
    mappingFile,    \* content of .image_moves.json
    plan,           \* the worker's plan dict
    mapping,        \* the worker's mapping dict
    pc,             \* position of the worker
    idx,            \* position of the executor's loop over items
    saved,          \* path returned by download_image for the current item
    mapping_changed,
    success,        \* first component of the executor's return value
    reused,         \* reused_plan of the worker
    runs,           \* apply requests started so far
    entry,          \* item statuses when the executor was entered
    fileOps,        \* downloads and moves attempted per item in this run
    fsAtBuild,      \* the files on disk when the current plan was built
    fsAtEntry,      \* the files on disk when the executor was entered
    docFile,        \* the document on disk: what each reference points at
    bakFile,        \* the .bak file next to the document
    \* the reference scanner
    md_text,        \* the document text, a sequence of segments
    found,          \* the list returned by collect_images
    scanned,        \* collect_images has returned
    \* ensure_attachment_for_src (it works on fs and mapping)
    ensured,        \* (new_rel, action, key) returned by each call so far
    \* process_document
    gaps,           \* text before each reference: "text" (prose) or "tight"
    cfg,            \* strategy, chunk_size, vision
    stop_flag,      \* the flag batch_confirm reads, set by the stop button
    cur,            \* loop index i (1-based)
    block_idx,
    img_idx,
    current_block_intent,
    last_intent,
    pending,        \* contexts built and not yet flushed
    ai_map,         \* index -> make_ai_result(...) of the current batch
    results,        \* results["items"]
    cancelled,
    dpc,            \* position inside process_document
    step,           \* position inside the batch being called or finalized
    llm_calls,      \* calls of call_openai_chat so far
    \* process_document: relocation and write-back
    acfg,           \* cfg.mode, cfg.backup, cfg.download, cfg.verbose
    wpc,            \* position inside process_document
    nfinal,         \* references finalize_context has been called for
    new_parts,      \* the source written for each reference finalized so far
    messages,       \* what was printed about the backup and the write-back
    \* a second apply request
    other,          \* the worker thread that is not scheduled: its locals
    \* the functions checked on their own
    js,             \* safe_parse_json: the reply text and what was returned
    nm,             \* name_with_template: the arguments and the name returned
    http            \* call_openai_chat: the retry loop

request == <<refs, bases, skipSet>>

document == <<docFile, bakFile>>

scanVars == <<md_text, found, scanned>>

docVars == <<gaps, cfg, stop_flag, cur, block_idx, img_idx, current_block_intent,
             last_intent, pending, ai_map, results, cancelled, dpc, step,
             llm_calls>>

applyVars == <<acfg, wpc, nfinal, new_parts, messages>>

workerVars == <<planFile, mappingFile, plan, pc, idx, saved, mapping_changed,
                success, reused, runs, entry, fileOps, fsAtBuild, fsAtEntry>>

\* what the apply worker and the executor never write
fnVars == <<js, nm, http>>

inputs == <<request, document, scanVars, ensured, docVars, applyVars, other,
            fnVars>>

vars == <<request, fs, mapping, workerVars, document, scanVars, ensured, docVars,
          applyVars, other, fnVars>>

history == <<reused, runs, entry, fsAtBuild, fsAtEntry>>

\* ------------------------------------------------- the parts not in use
NoBackup == [present |-> FALSE, text |-> <<>>]

NoIntent == <<"none", 0>>

WorkerIdle ==
    /\ refs = <<>> /\ bases = <<>> /\ skipSet = {}
    /\ planFile = EmptyPlan /\ mappingFile = {} /\ plan = EmptyPlan
    /\ pc = "off" /\ idx = 0 /\ saved = NoPath
    /\ mapping_changed = FALSE /\ success = FALSE /\ reused = FALSE
    /\ runs = 0 /\ entry = <<>> /\ fileOps = <<>>
    /\ fsAtBuild = {} /\ fsAtEntry = {}
    /\ docFile = <<>> /\ bakFile = NoBackup

ScanIdle == md_text = <<>> /\ found = <<>> /\ scanned = FALSE

EnsureIdle == ensured = <<>>

DocIdle ==
    /\ gaps = <<>>
    /\ cfg = [strategy |-> "seq", chunk_size |-> 1, vision |-> FALSE]
    /\ stop_flag = FALSE /\ cur = 0 /\ block_idx = 0 /\ img_idx = 0
    /\ current_block_intent = NoIntent /\ last_intent = NoIntent
    /\ pending = <<>> /\ ai_map = <<>> /\ results = <<>>
    /\ cancelled = FALSE /\ dpc = "off" /\ step = 0 /\ llm_calls = 0

\* the locals of a worker thread that has not been started
NoWorker ==
    [plan |-> EmptyPlan, mapping |-> {}, pc |-> "idle", idx |-> 0,
     saved |-> NoPath, mapping_changed |-> FALSE, success |-> FALSE,
     reused |-> FALSE, entry |-> <<>>, fileOps |-> <<>>, fsAtBuild |-> {},
     fsAtEntry |-> {}]

SecondIdle == other = NoWorker

FnIdle == js = <<>> /\ nm = <<>> /\ http = <<>>

ApplyIdle ==
    /\ acfg = [mode |-> "dry-run", backup |-> FALSE, download |-> FALSE,
               verbose |-> FALSE]
    /\ wpc = "off" /\ nfinal = 0 /\ new_parts = <<>> /\ messages = {}


\* -------------------------------------------------------------- the start
InitFiles ==
    { local \cup old :
        local \in SUBSET {[path |-> <<"src", "a", 0>>, data |-> "img_a"]},
        old \in SUBSET {[path |-> <<"att", "a", 0>>, data |-> "old"]} }

\* the mapping left behind by earlier runs over the same attachment directory
InitMappings ==
    { {},
      {[key |-> <<"remote", "http", "u1", 0>>, target |-> <<"att", "a", 0>>,
        hash |-> <<"sha256", "old">>]} }

BaseChoices(n) == {[i \in 1..n |-> "a"],
                   [i \in 1..n |-> IF i % 2 = 1 THEN "a" ELSE "b"]}

SkipChoices(n) == IF n >= 1 THEN {{}, {1}} ELSE {{}}

Init ==
    /\ \E n \in 0..MaxRefs :
          /\ refs \in [1..n -> SrcSet]
          /\ bases \in BaseChoices(n)
          /\ skipSet \in SkipChoices(n)
    /\ fs \in InitFiles
    /\ mappingFile \in InitMappings
    /\ planFile = EmptyPlan
    /\ plan = EmptyPlan
    /\ mapping = {}
    /\ pc = "idle"
    /\ idx = 0
    /\ saved = NoPath
    /\ mapping_changed = FALSE
    /\ success = FALSE
    /\ reused = FALSE
    /\ runs = 0
    /\ entry = <<>>
    /\ fileOps = <<>>
    /\ fsAtBuild = {}
    /\ fsAtEntry = {}
    /\ docFile = refs
    /\ bakFile = NoBackup
    /\ ScanIdle /\ EnsureIdle /\ DocIdle /\ ApplyIdle /\ SecondIdle /\ FnIdle

\* ------------------------------------------------------- the apply worker
\* reused_plan of apply_document.worker
ReusePlan(p, skip) ==
    /\ p.document = MdPath
    /\ skip = {}
    /\ Len(p.items) > 0
    /\ \A i \in 1..Len(p.items) : p.items[i].status \in {"pending", "done"}

EnterExecutor(p) ==
    /\ plan' = p
    /\ mapping' = mappingFile
    /\ pc' = "exec"
    /\ idx' = 1
    /\ saved' = NoPath
    /\ mapping_changed' = FALSE
    /\ success' = FALSE
    /\ runs' = runs + 1
    /\ entry' = Statuses(p)
    /\ fileOps' = [i \in 1..Len(p.items) |-> 0]
    /\ fsAtEntry' = fs

\* the persisted plan is taken up again
ApplyReuse ==
    /\ pc = "idle"
    /\ runs < MaxRuns
    /\ ReusePlan(planFile, skipSet)
    /\ EnterExecutor(planFile)
    /\ reused' = TRUE
    /\ UNCHANGED <<inputs, fs, planFile, mappingFile, fsAtBuild>>

\* faulty variant: the new plan reaches the executor without being written
ApplyBuild_NotSaved ==
    /\ pc = "idle"
    /\ runs < MaxRuns
    /\ ~ReusePlan(planFile, skipSet)
    /\ EnterExecutor(build_attachment_plan(refs, bases, skipSet, fs))
    /\ reused' = FALSE
    /\ fsAtBuild' = fs
    /\ UNCHANGED <<inputs, fs, planFile, mappingFile>>

\* a new plan is built and, when it has items, written to the plan file
ApplyBuild ==
    /\ pc = "idle"
    /\ runs < MaxRuns
    /\ ~ReusePlan(planFile, skipSet)
    /\ LET p == build_attachment_plan(refs, bases, skipSet, fs)
       IN  /\ EnterExecutor(p)
           /\ planFile' = IF Len(p.items) > 0 THEN p ELSE planFile
    /\ reused' = FALSE
    /\ fsAtBuild' = fs
    /\ UNCHANGED <<inputs, fs, mappingFile>>


\* ----------------------------------------------------------- the executor
Item == plan.items[idx]

AtItem(st) == pc = "exec" /\ idx <= Len(plan.items) /\ Item.status = st

CountOp == fileOps' = [fileOps EXCEPT ![idx] = @ + 1]

\* if not items: return True, False
ExecReturnEmpty ==
    /\ pc = "exec"
    /\ Len(plan.items) = 0
    /\ success' = TRUE
    /\ pc' = "returned"
    /\ UNCHANGED <<inputs, fs, planFile, mappingFile, plan, mapping, idx, saved,
                   mapping_changed, reused, runs, entry, fileOps, fsAtBuild, fsAtEntry>>

\* faulty variant: a finished item is set back to pending and run again
ExecSkipDone_Redo ==
    /\ AtItem("done")
    /\ plan' = SetItem(plan, idx, [Item EXCEPT !.status = "pending"])
    /\ UNCHANGED <<inputs, fs, planFile, mappingFile, mapping, pc, idx, saved,
                   mapping_changed, success, fileOps, history>>

\* if status == "done": continue
ExecSkipDone ==
    /\ AtItem("done")
    /\ idx' = idx + 1
    /\ UNCHANGED <<inputs, fs, planFile, mappingFile, plan, mapping, pc, saved,
                   mapping_changed, success, reused, runs, entry, fileOps,
                   fsAtBuild, fsAtEntry>>

\* faulty variant: an item in error is stepped over instead of halting the run
ExecHaltOnError_StepOver ==
    /\ AtItem("error")
    /\ idx' = idx + 1
    /\ UNCHANGED <<inputs, fs, planFile, mappingFile, plan, mapping, pc, saved,
                   mapping_changed, success, fileOps, history>>

\* if status == "error": return False, mapping_changed
ExecHaltOnError ==
    /\ AtItem("error")
    /\ success' = FALSE
    /\ pc' = "returned"
    /\ UNCHANGED <<inputs, fs, planFile, mappingFile, plan, mapping, idx, saved,
                   mapping_changed, reused, runs, entry, fileOps, fsAtBuild, fsAtEntry>>

\* faulty variant: the error is kept in memory only
FailItem_NotSaved(err) ==
    /\ plan' = SetItem(plan, idx, [Item EXCEPT !.status = "error", !.error = err])
    /\ planFile' = planFile
    /\ success' = FALSE
    /\ pc' = "returned"

\* item["status"] = "error"; item["error"] = ...; save_attachment_plan; return False
FailItem(err) ==
    /\ plan' = SetItem(plan, idx, [Item EXCEPT !.status = "error", !.error = err])
    /\ planFile' = plan'
    /\ success' = FALSE
    /\ pc' = "returned"

\* update_mapping_target(...); item["status"] = "done"; mapping_changed = True.
\* _hash_file is only reached for a key the mapping holds; when it raises the
\* except clause of the loop body turns the item into an error.
MarkDone(files, h, log) ==
    IF h = "raise" /\ HasKey(mapping, Item.mapping_key)
    THEN /\ FailItem("exception")
         /\ UNCHANGED <<mapping, mapping_changed>>
    ELSE /\ mapping' = update_mapping_target(mapping, Item.mapping_key,
                                             Item.target_abs, files)
         /\ plan' = SetItem(plan, idx,
                            [Item EXCEPT !.status = "done", !.logs = @ \o log])
         /\ mapping_changed' = TRUE
         /\ pc' = "persist"
         /\ UNCHANGED <<planFile, success>>

\* faulty variant: the download does not look for the target first
ExecDownload_Refetch ==
    /\ AtItem("pending")
    /\ Item.action = "download"
    /\ \E d \in DownloadOutcomes :
          /\ CountOp
          /\ IF d = "failed"
             THEN /\ FailItem("download_failed")
                  /\ UNCHANGED <<fs, saved, mapping, mapping_changed>>
             ELSE /\ saved' = ensure_unique_path(fs, Item.original_src[2])
                  /\ fs' = fs \cup {[path |-> saved',
                                     data |-> Item.original_src[2]]}
                  /\ pc' = "dl_move"
                  /\ UNCHANGED <<plan, planFile, mapping, mapping_changed,
                                 success>>
    /\ UNCHANGED <<inputs, mappingFile, idx, reused, runs, entry, fsAtBuild, fsAtEntry>>

\* action == "download"
ExecDownload ==
    /\ AtItem("pending")
    /\ Item.action = "download"
    /\ \E d \in DownloadOutcomes, h \in HashOutcomes :
          IF Exists(fs, Item.target_abs)
          THEN /\ MarkDone(fs, h, <<"exists">>)
               /\ UNCHANGED <<fs, saved, fileOps>>
          ELSE /\ CountOp
               /\ IF d = "failed"
                  THEN /\ FailItem("download_failed")
                       /\ UNCHANGED <<fs, saved, mapping, mapping_changed>>
                  ELSE /\ saved' = ensure_unique_path(fs, Item.original_src[2])
                       /\ fs' = fs \cup {[path |-> saved',
                                          data |-> Item.original_src[2]]}
                       /\ pc' = "dl_move"
                       /\ UNCHANGED <<plan, planFile, mapping, mapping_changed,
                                      success>>
    /\ UNCHANGED <<inputs, mappingFile, idx, reused, runs, entry, fsAtBuild, fsAtEntry>>

\* if not _try_move_file(saved, target_path): ... else update, done
ExecMoveDownloaded ==
    /\ pc = "dl_move"
    /\ \E mv \in MoveOutcomes, h \in HashOutcomes :
          /\ fs' = _try_move_file(fs, saved, Item.target_abs, mv)
          /\ IF mv = "failed"
             THEN /\ FailItem("move_failed")
                  /\ UNCHANGED <<mapping, mapping_changed>>
             ELSE MarkDone(fs', h, <<>>)
    /\ CountOp
    /\ saved' = NoPath
    /\ UNCHANGED <<inputs, mappingFile, idx, reused, runs, entry, fsAtBuild, fsAtEntry>>

\* action == "move"
ExecMove ==
    /\ AtItem("pending")
    /\ Item.action = "move"
    /\ \E mv \in MoveOutcomes, h \in HashOutcomes :
          IF Item.original_abs = NoPath
          THEN /\ FailItem("source_missing")
               /\ UNCHANGED <<fs, mapping, mapping_changed, fileOps>>
          ELSE IF Exists(fs, Item.target_abs) /\ ~Exists(fs, Item.original_abs)
          THEN /\ MarkDone(fs, h, <<"exists">>)
               /\ UNCHANGED <<fs, fileOps>>
          ELSE IF ~Exists(fs, Item.original_abs)
          THEN /\ FailItem("source_missing")
               /\ UNCHANGED <<fs, mapping, mapping_changed, fileOps>>
          ELSE /\ CountOp
               /\ fs' = _try_move_file(fs, Item.original_abs, Item.target_abs, mv)
               /\ IF mv = "failed"
                  THEN /\ FailItem("move_failed")
                       /\ UNCHANGED <<mapping, mapping_changed>>
                  ELSE MarkDone(fs', h, <<>>)
    /\ UNCHANGED <<inputs, mappingFile, idx, saved, reused, runs, entry,
                   fsAtBuild, fsAtEntry>>

\* faulty variant: the plan file is only written when the whole plan is finished
ExecPersist_NoPlanSave ==
    /\ pc = "persist"
    /\ plan' = SetItem(plan, idx, [Item EXCEPT !.completed_at = TRUE])
    /\ mappingFile' = mapping
    /\ idx' = idx + 1
    /\ pc' = "exec"
    /\ UNCHANGED <<inputs, fs, planFile, mapping, saved, mapping_changed, success,
                   fileOps, history>>

\* item["completed_at"] = now; save_attachment_plan; save_image_mapping
ExecPersist ==
    /\ pc = "persist"
    /\ plan' = SetItem(plan, idx, [Item EXCEPT !.completed_at = TRUE])
    /\ planFile' = plan'
    /\ mappingFile' = mapping
    /\ idx' = idx + 1
    /\ pc' = "exec"
    /\ UNCHANGED <<inputs, fs, mapping, saved, mapping_changed, success, reused,
                   runs, entry, fileOps, fsAtBuild, fsAtEntry>>

\* plan["completed"] = True; save_attachment_plan; return True, mapping_changed
ExecComplete ==
    /\ pc = "exec"
    /\ Len(plan.items) > 0
    /\ idx > Len(plan.items)
    /\ plan' = [plan EXCEPT !.completed = TRUE]
    /\ planFile' = plan'
    /\ success' = TRUE
    /\ pc' = "returned"
    /\ UNCHANGED <<inputs, fs, mappingFile, mapping, idx, saved, mapping_changed,
                   reused, runs, entry, fileOps, fsAtBuild, fsAtEntry>>

Executor == \/ ExecReturnEmpty \/ ExecSkipDone \/ ExecHaltOnError
            \/ ExecDownload \/ ExecMoveDownloaded \/ ExecMove
            \/ ExecPersist \/ ExecComplete

\* ------------------------------------------------ the end of the worker
Forget ==
    /\ plan' = EmptyPlan
    /\ mapping' = {}
    /\ pc' = "idle"
    /\ idx' = 0
    /\ saved' = NoPath
    /\ mapping_changed' = FALSE
    /\ success' = FALSE
    /\ reused' = FALSE
    /\ entry' = <<>>
    /\ fileOps' = <<>>
    /\ fsAtBuild' = {}
    /\ fsAtEntry' = {}

\* if not success: raise RuntimeError("Attachment plan execution failed")
ApplyFail ==
    /\ pc = "returned"
    /\ ~success
    /\ Forget
    /\ UNCHANGED <<inputs, fs, planFile, mappingFile, runs>>

\* new_text = plan.get("rewritten_text", text)
new_text(p, text) ==
    IF "rewritten_text" \in DOMAIN p THEN p.rewritten_text ELSE text

\* save the mapping when it changed; write the backup and the document when
\* the text changed (cfg.backup is set); completed and completed_at are set
\* and the plan saved
ApplyFinish ==
    /\ pc = "returned"
    /\ success
    /\ mappingFile' = IF mapping_changed THEN mapping ELSE mappingFile
    /\ LET text == docFile
           nt == IF Len(plan.items) > 0 THEN new_text(plan, text) ELSE text
       IN  IF nt # text
           THEN /\ bakFile' = [present |-> TRUE, text |-> text]
                /\ docFile' = nt
           ELSE UNCHANGED <<docFile, bakFile>>
    /\ planFile' = [plan EXCEPT !.completed = TRUE, !.completedAt = TRUE]
    /\ Forget
    /\ UNCHANGED <<request, scanVars, ensured, docVars, applyVars, other, fnVars,
                   fs, runs>>

\* the process dies: what is on disk stays, what is in memory is lost
Crash ==
    /\ pc \in {"exec", "dl_move", "persist", "returned"}
    /\ Forget
    /\ UNCHANGED <<inputs, fs, planFile, mappingFile, runs>>

Next == \/ ApplyReuse \/ ApplyBuild \/ Executor
        \/ ApplyFail \/ ApplyFinish \/ Crash

Spec == Init /\ [][Next]_vars


\* ================================================================ claims
Running == pc \in {"exec", "dl_move", "persist", "returned"}

N == Len(plan.items)

StatusStepOK(old, new) ==
    /\ Len(old) = Len(new)
    /\ \A i \in 1..Len(old) :
          \/ new[i] = old[i]
          \/ old[i] = "pending" /\ new[i] \in {"done", "error"}

\* C1: a step of execute_attachment_plan changes an item's status only from
\* pending to done or from pending to error, in the plan it works on and in
\* the plan file; done and error items keep their status.
C1_StatusOnlyLeavesPending ==
    [][Executor => /\ StatusStepOK(Statuses(plan), Statuses(plan'))
                   /\ StatusStepOK(Statuses(planFile), Statuses(planFile'))]_vars

\* an item finished and a later one failed in the same run
C1_Witness ==
    /\ pc = "returned"
    /\ \E i, j \in 1..N :
          /\ i < j
          /\ entry[i] = "pending" /\ plan.items[i].status = "done"
          /\ entry[j] = "pending" /\ plan.items[j].status = "error"

FirstNotDone(st) ==
    IF \E i \in 1..Len(st) : st[i] # "done"
    THEN CHOOSE i \in 1..Len(st) :
             st[i] # "done" /\ \A j \in 1..(i - 1) : st[j] = "done"
    ELSE Len(st) + 1

\* items the executor has worked on in this run
Touched == {i \in 1..N : fileOps[i] > 0 \/ plan.items[i].status # entry[i]}

\* C2: items that were done when the plan was taken up are skipped (no file
\* operation, status kept), and the first item the executor works on, or
\* halts at, is the first item that was pending or in error.
C2_ResumeAtFirstNotDone ==
    Running =>
        /\ \A i \in 1..N : entry[i] = "done" =>
              fileOps[i] = 0 /\ plan.items[i].status = "done"
        /\ \A i \in Touched : i = FirstNotDone(entry) \/ entry[FirstNotDone(entry)] = "pending"
        /\ \A i \in Touched : i >= FirstNotDone(entry)
        /\ idx <= N => idx <= FirstNotDone(Statuses(plan))
        /\ (pc = "returned" /\ ~success) => idx = FirstNotDone(Statuses(plan))

\* a plan that a crash left half done (a run that returns leaves every item
\* done or one in error) is taken up again: item 1 is skipped, item 2 is
\* worked on
C2_Witness ==
    /\ Running /\ reused /\ ~plan.completed
    /\ N >= 2
    /\ entry[1] = "done" /\ entry[2] = "pending"
    /\ fileOps[1] = 0 /\ fileOps[2] > 0

AttemptsOf(it) ==
    CASE it.error = "download_failed" -> 1
      [] it.error = "move_failed" -> IF it.action = "download" THEN 2 ELSE 1
      [] it.error = "source_missing" -> 0
      [] OTHER -> IF it.action = "download" THEN 2 ELSE 1

C6_DoneItemIsMapped ==
    (pc = "persist" /\ Item.action \in {"download", "move"}) =>
        \E e \in mapping : e.key = Item.mapping_key /\ e.target = Item.target_abs

\* the mapping has an entry for the item's key and the file it names exists
MappingHit(it) ==
    \E e \in mapping : e.key = it.mapping_key /\ Exists(fs, e.target)

\* C7 (as claimed): a pending item whose key is in the mapping, with the
\* mapped file still on disk, is handled without a download or a move and
\* without any change to the files.
C7_MappedItemIsReused ==
    [][(Executor /\ AtItem("pending") /\ MappingHit(Item)) =>
           (fs' = fs /\ fileOps' = fileOps)]_vars

TargetedItems(p) == {i \in 1..Len(p.items) : p.items[i].action # "error"}

\* C8: in a plan that was just built the target paths of the items are
\* pairwise different and none of them names a file that was on disk when the
\* plan was built.
C8_TargetsUniqueAndFree ==
    (Running /\ ~reused) =>
        /\ \A i, j \in TargetedItems(plan) :
              i # j => plan.items[i].target_abs # plan.items[j].target_abs
        /\ \A i \in TargetedItems(plan) :
              /\ plan.items[i].target_abs[1] = "att"
              /\ ~Exists(fsAtBuild, plan.items[i].target_abs)

\* two items asked for the name "a" while a file "a" was already there
C8_Witness ==
    /\ Running /\ ~reused /\ N = 2
    /\ Exists(fsAtBuild, <<"att", "a", 0>>)
    /\ plan.items[1].target_abs = <<"att", "a", 1>>
    /\ plan.items[2].target_abs = <<"att", "a", 2>>

NotSkipped == {i \in 1..Len(refs) : i \notin skipSet}

IsHttpUrl(src) == src[1] \in {"http", "https", "HTTP", "HTTPS"}

ResolvesLocally(files, src) == \E f \in files : f.path[2] = src[2]

ExpectedAction(files, src) ==
    IF IsHttpUrl(src) THEN "download"
    ELSE IF ResolvesLocally(files, src) THEN "move"
    ELSE "error"

\* C9: a plan that was just built has one item for every reference that is
\* not skipped, in document order, and none for a skipped one; the item is a
\* download for an http/https source, a move for a local source that resolves
\* to a file, and an error item (status error) otherwise.
C9_OneItemPerReference ==
    (Running /\ ~reused) =>
        /\ N = Cardinality(NotSkipped)
        /\ \A i \in NotSkipped : \E k \in 1..N : plan.items[k].index = i
        /\ \A k \in 1..N :
              /\ plan.items[k].index \in NotSkipped
              /\ \A l \in 1..(k - 1) : plan.items[l].index < plan.items[k].index
              /\ plan.items[k].original_src = refs[plan.items[k].index]
              /\ plan.items[k].action =
                    ExpectedAction(fsAtBuild, refs[plan.items[k].index])
              /\ entry[k] = IF plan.items[k].action = "error"
                            THEN "error" ELSE "pending"

\* reference 1 is skipped, reference 2 is an upper-case HTTPS URL
C9_Witness ==
    /\ pc = "exec" /\ idx = 1 /\ ~reused
    /\ Len(refs) = 2 /\ skipSet = {1} /\ refs[2] = <<"HTTPS", "u2">>
    /\ N = 1
    /\ plan.items[1].index = 2 /\ plan.items[1].action = "download"

\* C10 (as claimed): when the executor returns success with every item done,
\* the plan and the plan file have the completed flag and the completion
\* timestamp.
C10_CompletedWithTimestamp ==
    (pc = "returned" /\ success /\ N >= 1
        /\ \A i \in 1..N : plan.items[i].status = "done") =>
        /\ plan.completed /\ plan.completedAt
        /\ planFile.completed /\ planFile.completedAt

\* C11 (as stated): every plan that is built, with or without items, is in the
\* plan file before anything of it is executed.
Untouched ==
    /\ pc = "exec" /\ ~reused
    /\ Statuses(plan) = entry
    /\ \A i \in 1..N : fileOps[i] = 0

AlreadyInAttachment(i) ==
    /\ plan.items[i].original_abs # NoPath
    /\ plan.items[i].original_abs[1] = "att"

C13_AlreadyInPlaceUntouched ==
    \A i \in 1..N :
        (Running /\ AlreadyInAttachment(i)) =>
            LET p == plan.items[i].original_abs
                k == plan.items[i].mapping_key
            IN  /\ fileOps[i] = 0
                /\ Exists(fs, p)
                /\ {e \in mapping : e.key = k} = {e \in mappingFile : e.key = k}

\* C14: after a successful apply of a document that holds a remote image
\* reference, the plan has a download item for the reference, the document on
\* disk points at the item's target in the attachment directory, and a .bak
\* file with the original text exists.
C14_RemoteRefRewrittenWithBackup ==
    (pc = "idle" /\ planFile.completedAt) =>
        \A k \in 1..Len(planFile.items) :
            LET it == planFile.items[k]
            IN  is_remote_url(it.original_src) =>
                    /\ it.action = "download"
                    /\ it.status = "done"
                    /\ docFile[it.index] = it.target_abs
                    /\ bakFile = [present |-> TRUE, text |-> refs]


\* the plan file holds the plan of a run that halted at a failed download or
\* file operation after finishing at least one item
Halted(p) ==
    /\ p.document = MdPath /\ ~p.completed
    /\ \E i \in 1..Len(p.items) : p.items[i].status = "done"
    /\ \E i \in 1..Len(p.items) :
          /\ p.items[i].status = "error"
          /\ p.items[i].error \in {"download_failed", "move_failed", "exception"}

\* C27: when apply is invoked again after a run that halted on a failed item,
\* every item the halted run finished is taken up without becoming an error
\* and without a second copy of its file: the plan the executor starts with
\* has, for each such item, an item of the same reference that is not in
\* error and, for a download, has the file of the halted run as its target
\* (any other target does not exist yet and is downloaded to).
C27_RetryKeepsFinishedItems ==
    [][(pc = "idle" /\ pc' = "exec" /\ Halted(planFile)) =>
          \A i \in 1..Len(planFile.items) :
              planFile.items[i].status = "done" =>
                  \E j \in 1..Len(plan'.items) :
                      /\ plan'.items[j].index = planFile.items[i].index
                      /\ plan'.items[j].status # "error"
                      /\ plan'.items[j].action = "download" =>
                             plan'.items[j].target_abs = planFile.items[i].target_abs]_vars

\* C28: in the run of a plan that was built without an error item, no item
\* ends in error unless a download or a file operation failed, so that a run
\* without such a failure finishes every item; two references to the same
\* local file or to the same URL are among the documents.
C28_FaultFreeRunCompletes ==
    (Running /\ ~reused /\ \A i \in 1..N : entry[i] = "pending") =>
        \A i \in 1..N :
            plan.items[i].status = "error" =>
                plan.items[i].error \in {"download_failed", "move_failed", "exception"}

\* the persisted plan is executed again and the item at hand is still
\* pending although its file is already at its target
Relocated ==
    /\ pc = "exec" /\ reused /\ idx <= N
    /\ Item.status = "pending"
    /\ Exists(fs, Item.target_abs)
    /\ Item.action = "move" => ~Exists(fs, Item.original_abs)

\* C30: at every point, crashes included, each item that is done in the plan
\* file has its file at its target path; and when the persisted plan is
\* executed again, an item whose file was relocated before the crash without
\* its status being persisted is marked done with no file created, moved or
\* removed (unless the process dies again or hashing the file raises).
C30_DoneMeansFilePresent ==
    /\ [](\A i \in 1..Len(planFile.items) :
              planFile.items[i].status = "done" =>
                  Exists(fs, planFile.items[i].target_abs))
    /\ [][Relocated =>
              /\ fs' = fs
              /\ \/ pc' = "idle"
                 \/ plan'.items[idx].error = "exception"
                 \/ pc' = "persist" /\ plan'.items[idx].status = "done"]_vars

\* after a crash between the move to the target and the save of the plan,
\* the second run has found the file in place
C30_Witness ==
    /\ pc = "persist" /\ reused
    /\ Item.logs = <<"exists">>
    /\ planFile.items[idx].status = "pending"
    /\ Exists(fs, Item.target_abs)
    /\ fs = fsAtEntry


\* ==================================================== the reference scanner
\* A document is a sequence of segments: "t" is plain text, "md" an inline
\* image ![alt](url), "html" a raw <img src=...> tag, "wiki" an embed
\* ![[file]], "md_tag" an inline image whose alt text is a raw tag right after
\* the "![", "md_sp_tag" the same with a blank between "![" and the tag.
\* Segment j occupies the offsets 10 * (j - 1) up to 10 * j.
MaxSegs == 3

Segments == {"t", "md", "html", "wiki", "md_tag", "md_sp_tag"}

ImageRef(kind, start, end) == [kind |-> kind, start |-> start, end |-> end]

\* the match of a pattern inside the segment that starts at offset at
MatchIn(pattern, seg, at) ==
    CASE pattern = "MD_IMAGE_RE" /\ seg \in {"md", "md_tag", "md_sp_tag"} ->
             <<ImageRef("md", at, at + 10)>>
      [] pattern = "HTML_IMG_RE" /\ seg = "html" ->
             <<ImageRef("html", at, at + 10)>>
      \* prev.endswith("![") : continue
      [] pattern = "HTML_IMG_RE" /\ seg = "md_tag" -> <<>>
      [] pattern = "HTML_IMG_RE" /\ seg = "md_sp_tag" ->
             <<ImageRef("html", at + 3, at + 9)>>
      [] pattern = "WIKILINK_EMBED_RE" /\ seg = "wiki" ->
             <<ImageRef("wikilink", at, at + 10)>>
      [] OTHER -> <<>>

RECURSIVE finditer(_, _, _)
finditer(pattern, text, j) ==
    IF j > Len(text) THEN <<>>
    ELSE MatchIn(pattern, text[j], 10 * (j - 1)) \o finditer(pattern, text, j + 1)

\* one pass per syntax, each appended to the same list
collect_images(text) ==
    finditer("MD_IMAGE_RE", text, 1)
    \o finditer("HTML_IMG_RE", text, 1)
    \o finditer("WIKILINK_EMBED_RE", text, 1)

InitScan ==
    /\ \E n \in 0..MaxSegs : md_text \in [1..n -> Segments]
    /\ found = <<>>
    /\ scanned = FALSE
    /\ fs = {} /\ mapping = {}
    /\ WorkerIdle /\ EnsureIdle /\ DocIdle /\ ApplyIdle /\ SecondIdle /\ FnIdle

Scan ==
    /\ ~scanned
    /\ found' = collect_images(md_text)
    /\ scanned' = TRUE
    /\ UNCHANGED <<md_text, request, fs, mapping, workerVars, document, ensured,
                   docVars, applyVars, other, fnVars>>

NextScan == Scan

SpecScan == InitScan /\ [][NextScan]_vars

\* the image references of a document: every segment that is not plain text
ImageCount(text) == Cardinality({j \in 1..Len(text) : text[j] # "t"})

\* C15: for a document with N image references collect_images returns exactly
\* N references, in document order: every reference ends before the next one
\* of the list starts, whatever mix of syntaxes the document uses.
C15_ScanInDocumentOrder ==
    scanned =>
        /\ Len(found) = ImageCount(md_text)
        /\ \A a \in 1..Len(found) : \A b \in 1..Len(found) :
              a < b => (found[a].start < found[b].start
                        /\ found[a].end <= found[b].start)


\* ============================================== ensure_attachment_for_src
MaxCalls == 2

CopyOutcomes == {"ok", "failed"}

Ensured(files, m, rel, action, key) ==
    [files |-> files, mapping |-> m, rel |-> rel, action |-> action, key |-> key]

\* entry = mapping.get(key): the entry is returned as it is when the file at
\* its target exists, and dropped from the mapping when it does not
LiveEntry(files, m, key) ==
    {e \in m : e.key = key /\ Exists(files, e.target)}

WithEntry(files, m, key, target) ==
    {e \in m : e.key # key}
    \cup {[key |-> key, target |-> target, hash |-> _hash_file(files, target)]}

\* dl, mv, cp: what the network and the OS let happen in this call
ensure_attachment_for_src(files, m, src, prefer_move, dl, mv, cp) ==
    IF is_remote_url(src) THEN
        LET key == <<"remote", src[1], src[2], 0>>
            live == LiveEntry(files, m, key)
            popped == {e \in m : e.key # key}
            saved_to == ensure_unique_path(files, src[2])
            written == files \cup {[path |-> saved_to, data |-> src[2]]}
        IN  IF live # {}
            THEN Ensured(files, m, (CHOOSE e \in live : TRUE).target, "reused", key)
            ELSE IF dl = "failed"
            THEN Ensured(files, popped, NoPath, "error", key)
            ELSE Ensured(written, WithEntry(written, popped, key, saved_to),
                         saved_to, "downloaded", key)
    ELSE
        LET src_path == resolve_local_image(files, src)
            key == <<"local", src_path[1], src_path[2], src_path[3]>>
            live == LiveEntry(files, m, key)
            popped == {e \in m : e.key # key}
            target == ensure_unique_path(files, src_path[2])
            moved == prefer_move /\ mv = "moved"
            placed == _try_move_file(files, src_path, target, "moved")
        IN  IF src_path = NoPath
            THEN Ensured(files, m, NoPath, "error", NoKey)
            ELSE IF src_path[1] = "att"
            THEN Ensured(files, m, src_path, "already", NoKey)
            ELSE IF live # {}
            THEN Ensured(files, m, (CHOOSE e \in live : TRUE).target, "reused", key)
            ELSE IF ~moved /\ cp = "failed"
            THEN Ensured(files, popped, NoPath, "error", key)
            ELSE Ensured(placed, WithEntry(placed, popped, key, target), target,
                         IF moved THEN "moved" ELSE "copied", key)

\* the attachment directory may hold a.png as an earlier run left it ("old")
\* or replaced since by something else ("new")
EnsureFiles ==
    { local \cup att :
        local \in SUBSET {[path |-> <<"src", "a", 0>>, data |-> "img_a"]},
        att \in { {}, {[path |-> <<"att", "a", 0>>, data |-> "old"]},
                  {[path |-> <<"att", "a", 0>>, data |-> "new"]} } }

EnsureMappings ==
    InitMappings
    \cup { {[key |-> <<"local", "src", "a", 0>>, target |-> <<"att", "a", 0>>,
             hash |-> <<"sha256", "old">>]} }

InitEnsure ==
    /\ fs \in EnsureFiles
    /\ mapping \in EnsureMappings
    /\ ensured = <<>>
    /\ WorkerIdle /\ ScanIdle /\ DocIdle /\ ApplyIdle /\ SecondIdle /\ FnIdle

Returned(r, src) ==
    /\ fs' = r.files
    /\ mapping' = r.mapping
    /\ ensured' = Append(ensured, [src |-> src, rel |-> r.rel,
                                   action |-> r.action, key |-> r.key])
    /\ UNCHANGED <<request, workerVars, document, scanVars, docVars, applyVars,
                   other, fnVars>>

\* ensure_attachment_for_src(..., prefer_move=False) for a remote reference
EnsureRemote ==
    /\ Len(ensured) < MaxCalls
    /\ \E src \in {r \in SrcSet : is_remote_url(r)}, dl \in DownloadOutcomes :
          Returned(ensure_attachment_for_src(fs, mapping, src, FALSE, dl,
                                             "failed", "failed"), src)

\* ensure_attachment_for_src(..., prefer_move=True) for a local reference
EnsureLocal ==
    /\ Len(ensured) < MaxCalls
    /\ \E src \in {r \in SrcSet : ~is_remote_url(r)},
          mv \in MoveOutcomes, cp \in CopyOutcomes :
          Returned(ensure_attachment_for_src(fs, mapping, src, TRUE, "failed",
                                             mv, cp), src)

NextEnsure == EnsureRemote \/ EnsureLocal

SpecEnsure == InitEnsure /\ [][NextEnsure]_vars

LastEnsured == ensured[Len(ensured)]

\* C12: whenever a mapping entry is used to reuse an earlier relocation or
\* download, the hash recorded in the entry is the hash of the file that is
\* now at the entry's target; an entry whose hash differs is not reused.
C12_ReusedEntryHashMatches ==
    (Len(ensured) > 0 /\ LastEnsured.action = "reused") =>
        \E e \in mapping :
            /\ e.key = LastEnsured.key
            /\ e.target = LastEnsured.rel
            /\ e.hash = _hash_file(fs, e.target)


\* ======================================================= process_document
\* The document is given by the text before each of its references:
\* gaps[k] = "text" when prose of at least 8 letters separates reference k
\* from the one before, "tight" when at most 3 characters do.  A phrase is
\* <<"ai", k>> (the title the model gave for reference k), <<"text", k>> (the
\* heuristic's cut of the prose before reference k) or the placeholder.
MaxImages == 4
MaxChunk == 2

Placeholder == <<"placeholder", 0>>

Strategies == {"seq", "intent"}

ErrorTags == {"llm_call_failed", "llm_parse_failed", "llm_validate_failed"}

\* what comes back from call_openai_chat for one image: nothing, text that
\* is no JSON, JSON without candidates, a candidate whose title is a number,
\* a valid result
SingleReplies == {"none", "garbage", "invalid", "bad_title", "ok"}

\* ... and for a batch: nothing, no "items" list, an entry that is no object,
\* an invalid entry for the first image, no entry for the first image, valid
\* entries for all
BatchReplies == {"none", "garbage", "entry_not_object", "first_invalid",
                 "first_missing", "ok"}

make_ai_result(error, ai_json) == [ai_error |-> error, ai_json |-> ai_json]

Called(result, called, raised) ==
    [result |-> result, called |-> called, raised |-> raised]

\* faulty variant: the endpoint is called whatever the strategy
call_single_NoSeqShortcut(strategy, context, reply) ==
    CASE reply = "none" ->
             Called(make_ai_result("llm_call_failed", NoIntent), TRUE, FALSE)
      [] reply = "garbage" ->
             Called(make_ai_result("llm_parse_failed", NoIntent), TRUE, FALSE)
      [] reply = "invalid" ->
             Called(make_ai_result("llm_validate_failed", NoIntent), TRUE, FALSE)
      [] reply = "bad_title" ->
             Called(make_ai_result("", NoIntent), TRUE, TRUE)
      [] OTHER ->
             Called(make_ai_result("", <<"ai", context.index>>), TRUE, FALSE)

call_single(strategy, context, reply) ==
    IF strategy = "seq"
    THEN Called(make_ai_result("", NoIntent), FALSE, FALSE)
    ELSE CASE reply = "none" ->
                  Called(make_ai_result("llm_call_failed", NoIntent), TRUE, FALSE)
           [] reply = "garbage" ->
                  Called(make_ai_result("llm_parse_failed", NoIntent), TRUE, FALSE)
           [] reply = "invalid" ->
                  Called(make_ai_result("llm_validate_failed", NoIntent), TRUE, FALSE)
           \* validate_ai_result: sanitize_intent_for_language(c["title"]) raises
           [] reply = "bad_title" ->
                  Called(make_ai_result("", NoIntent), TRUE, TRUE)
           [] OTHER ->
                  Called(make_ai_result("", <<"ai", context.index>>), TRUE, FALSE)

\* the text-only batch call (cfg.vision is off); the result map is kept as
\* the sequence of results in the order of the contexts
call_batch(strategy, contexts, reply) ==
    LET all(error) == [k \in 1..Len(contexts) |-> make_ai_result(error, NoIntent)]
        valid == [k \in 1..Len(contexts) |->
                     make_ai_result("", <<"ai", contexts[k].index>>)]
    IN  IF strategy = "seq" THEN Called(all(""), FALSE, FALSE)
        ELSE CASE reply = "none" -> Called(all("llm_call_failed"), TRUE, FALSE)
               [] reply = "garbage" -> Called(all("llm_parse_failed"), TRUE, FALSE)
               \* entry.get("index") on something that is no dict raises
               [] reply = "entry_not_object" ->
                      Called(all("llm_call_failed"), TRUE, TRUE)
               [] reply = "first_invalid" ->
                      Called([valid EXCEPT ![1] =
                                 make_ai_result("llm_validate_failed", NoIntent)],
                             TRUE, FALSE)
               [] reply = "first_missing" ->
                      Called([valid EXCEPT ![1] =
                                 make_ai_result("llm_call_failed", NoIntent)],
                             TRUE, FALSE)
               [] OTHER -> Called(valid, TRUE, FALSE)

\* above / below of find_neighbor_text, named by the gap the prose stands in
\* (0: no prose)
above(k) == IF gaps[k] = "text" THEN k ELSE 0

below(k) == IF k < Len(gaps) /\ gaps[k + 1] = "text" THEN k + 1 ELSE 0

simple_terms(t) == IF t = 0 THEN Placeholder ELSE <<"text", t>>

\* (intent_phrase, used_strategy)
pick_intent_phrase(strategy, ai, k) ==
    IF strategy = "seq" THEN <<Placeholder, "seq">>
    ELSE IF ai # NoIntent THEN <<ai, "intent">>
    ELSE <<simple_terms(IF above(k) # 0 THEN above(k) ELSE below(k)), "seq">>

InitDoc ==
    /\ \E n \in 0..MaxImages : gaps \in [1..n -> {"text", "tight"}]
    /\ cfg \in {c \in [strategy : Strategies, chunk_size : 1..MaxChunk,
                       vision : BOOLEAN] :
                   c.vision => (c.strategy = "intent" /\ c.chunk_size > 1)}
    /\ stop_flag = FALSE /\ cur = 1 /\ block_idx = 0 /\ img_idx = 0
    /\ current_block_intent = NoIntent /\ last_intent = NoIntent
    /\ pending = <<>> /\ ai_map = <<>> /\ results = <<>>
    /\ cancelled = FALSE /\ dpc = "loop" /\ step = 0 /\ llm_calls = 0
    /\ fs = {} /\ mapping = {}
    /\ WorkerIdle /\ ScanIdle /\ EnsureIdle /\ ApplyIdle /\ SecondIdle /\ FnIdle

others == <<request, fs, mapping, workerVars, document, scanVars, ensured,
           applyVars, other, fnVars>>

\* the stop button of the batch window (_on_stop)
Stop ==
    /\ dpc \in {"loop", "confirm", "call", "finalize"}
    /\ ~stop_flag
    /\ stop_flag' = TRUE
    /\ UNCHANGED <<gaps, cfg, cur, block_idx, img_idx, current_block_intent,
                   last_intent, pending, ai_map, results, cancelled, dpc, step,
                   llm_calls, others>>

\* the body of the loop over refs up to should_flush
BuildContext ==
    /\ dpc = "loop"
    /\ cur <= Len(gaps)
    /\ LET is_new_block == gaps[cur] = "text"
           b == IF is_new_block THEN block_idx + 1
                ELSE IF block_idx = 0 THEN 1 ELSE block_idx
           im == IF is_new_block THEN 1 ELSE img_idx + 1
           context == [index |-> cur, block_index |-> b, image_index |-> im]
           should_flush == Len(pending) + 1 = cfg.chunk_size \/ cur = Len(gaps)
       IN  /\ block_idx' = b
           /\ img_idx' = im
           /\ current_block_intent' =
                  IF is_new_block THEN NoIntent ELSE current_block_intent
           /\ pending' = Append(pending, context)
           /\ dpc' = IF should_flush THEN "confirm" ELSE "loop"
           /\ cur' = IF should_flush THEN cur ELSE cur + 1
    /\ UNCHANGED <<gaps, cfg, stop_flag, last_intent, ai_map, results, cancelled,
                   step, llm_calls, others>>

\* proceed = bool(cfg.batch_confirm_cb(...)); batch_confirm returns False
\* when the stop flag is set
ConfirmBatch ==
    /\ dpc = "confirm"
    /\ IF stop_flag
       THEN /\ cancelled' = TRUE
            /\ dpc' = "end"
            /\ step' = step
       ELSE /\ cancelled' = cancelled
            /\ dpc' = "call"
            /\ step' = 1
    /\ UNCHANGED <<gaps, cfg, stop_flag, cur, block_idx, img_idx,
                   current_block_intent, last_intent, pending, ai_map, results,
                   llm_calls, others>>

AfterCall(c, map, last) ==
    /\ llm_calls' = IF c.called THEN llm_calls + 1 ELSE llm_calls
    /\ IF c.raised
       THEN /\ dpc' = "aborted"
            /\ UNCHANGED <<ai_map, step>>
       ELSE /\ ai_map' = map
            /\ dpc' = IF last THEN "finalize" ELSE "call"
            /\ step' = IF last THEN 1 ELSE step + 1
    /\ UNCHANGED <<gaps, cfg, stop_flag, cur, block_idx, img_idx,
                   current_block_intent, last_intent, pending, results,
                   cancelled, others>>

\* len(batch_contexts) == 1
CallSingle ==
    /\ dpc = "call"
    /\ Len(pending) = 1
    /\ \E reply \in SingleReplies :
          LET c == call_single(cfg.strategy, pending[1], reply)
          IN  AfterCall(c, <<c.result>>, TRUE)

\* call_batch with one request for the whole batch
CallBatch ==
    /\ dpc = "call"
    /\ Len(pending) > 1
    /\ cfg.strategy = "seq" \/ ~cfg.vision
    /\ \E reply \in BatchReplies :
          LET c == call_batch(cfg.strategy, pending, reply)
          IN  AfterCall(c, c.result, TRUE)

\* call_batch with cfg.vision: one call_single after the other
CallEach ==
    /\ dpc = "call"
    /\ Len(pending) > 1
    /\ cfg.strategy # "seq" /\ cfg.vision
    /\ \E reply \in SingleReplies :
          LET c == call_single(cfg.strategy, pending[step], reply)
          IN  AfterCall(c, Append(ai_map, c.result), step = Len(pending))

\* finalize_context for the next context of the batch; pending.clear() after
\* the last one
Finalize ==
    /\ dpc = "finalize"
    /\ LET context == pending[step]
           ai_info == ai_map[step]
           picked == pick_intent_phrase(cfg.strategy, ai_info.ai_json, context.index)
           short == picked[1] = Placeholder
           copied == short /\ last_intent # NoIntent
           own == IF copied THEN last_intent ELSE picked[1]
           same == context.image_index # 1 /\ current_block_intent # NoIntent
           normalized_for_item == IF same THEN current_block_intent ELSE own
           used_strategy == IF same THEN "block_same"
                            ELSE IF copied THEN "copied_prev" ELSE picked[2]
           last == step = Len(pending)
       IN  /\ current_block_intent' =
                  IF context.image_index = 1 THEN own ELSE current_block_intent
           /\ last_intent' = normalized_for_item
           /\ results' = Append(results,
                  [index |-> context.index,
                   block_index |-> context.block_index,
                   image_index |-> context.image_index,
                   normalized_title |-> normalized_for_item,
                   best |-> used_strategy,
                   ai_error |-> ai_info.ai_error])
           /\ step' = IF last THEN 0 ELSE step + 1
           /\ pending' = IF last THEN <<>> ELSE pending
           /\ ai_map' = IF last THEN <<>> ELSE ai_map
           /\ cur' = IF last THEN cur + 1 ELSE cur
           /\ dpc' = IF last THEN "loop" ELSE "finalize"
    /\ UNCHANGED <<gaps, cfg, stop_flag, block_idx, img_idx, cancelled,
                   llm_calls, others>>

\* the loop is left: results["cancelled"] is set when cancelled; return results
Finish ==
    /\ \/ dpc = "loop" /\ cur > Len(gaps)
       \/ dpc = "end"
    /\ dpc' = "done"
    /\ UNCHANGED <<gaps, cfg, stop_flag, cur, block_idx, img_idx,
                   current_block_intent, last_intent, pending, ai_map, results,
                   cancelled, step, llm_calls, others>>

NextDoc == \/ Stop \/ BuildContext \/ ConfirmBatch
           \/ CallSingle \/ CallBatch \/ CallEach
           \/ Finalize \/ Finish

SpecDoc == InitDoc /\ [][NextDoc]_vars


\* C16: a reference that follows the one before without prose lies in the same
\* block: it gets the same block index and the next image index; and every
\* reference with an image index above 1 carries the phrase resolved for the
\* image-index-1 reference of its block, for every chunk_size and wherever
\* the batches end.
C16_BlockPhraseShared ==
    \A a \in 1..Len(results) : \A b \in 1..Len(results) :
        /\ (b = a + 1 /\ gaps[b] = "tight") =>
               /\ results[b].block_index = results[a].block_index
               /\ results[b].image_index = results[a].image_index + 1
        /\ (/\ results[a].block_index = results[b].block_index
            /\ results[a].image_index = 1
            /\ results[b].image_index > 1) =>
               results[b].normalized_title = results[a].normalized_title

\* C17: once the stop flag is set no further call of the model is made (the
\* first call of a batch confirmed before the flag was set is let through),
\* and the results already there are kept.
C17_NothingAfterCancel ==
    [][/\ (stop_flag /\ llm_calls' # llm_calls) => step = 1
       /\ Len(results') >= Len(results)
       /\ SubSeq(results', 1, Len(results)) = results]_vars

\* C18: the result set that process_document returns has an entry for every
\* reference of the document, and the entry of a reference whose model call
\* failed names the error.
C18_EveryReferenceReported ==
    dpc = "done" =>
        /\ Len(results) = Len(gaps)
        /\ \A k \in 1..Len(results) :
              /\ results[k].index = k
              /\ (cfg.strategy # "seq" /\ results[k].best # "intent"
                  /\ results[k].best # "block_same") =>
                     results[k].ai_error \in ErrorTags

\* C19: a failed call, an unparseable reply or a schema-invalid result never
\* aborts process_document; the reference concerned gets an entry with the
\* error tag and a phrase that is the heuristic's (or the one its block or
\* the reference before it already has), and the references after it are
\* processed as well.
HeuristicPhrase(k) ==
    simple_terms(IF above(k) # 0 THEN above(k) ELSE below(k))

C19_ModelFailureNotFatal ==
    /\ dpc # "aborted"
    /\ \A k \in 1..Len(results) :
          results[k].ai_error # "" =>
              /\ results[k].ai_error \in ErrorTags
              /\ \/ results[k].normalized_title = HeuristicPhrase(k)
                 \/ results[k].best \in {"block_same", "copied_prev"}
    /\ (dpc = "done" /\ ~cancelled) => Len(results) = Len(gaps)

Modes == {"dry-run", "no-rename", "apply", "interactive"}

\* faulty variant: the files are handled whatever the mode
Relocating_AnyMode(mode) == TRUE

\* cfg.mode in ("apply", "interactive")
Relocating(mode) == mode \in {"apply", "interactive"}

SuggestedNames == <<"n1", "n2", "n3", "n4">>

WriteOutcomes == {"ok", "failed"}

\* asset_path = (md_path.parent / Path(new_rel)).resolve() when it exists
asset_path(files, new_rel) ==
    IF Len(new_rel) = 3
    THEN IF Exists(files, new_rel) THEN new_rel ELSE NoPath
    ELSE IF ~is_remote_url(new_rel) /\ Exists(files, <<"src", new_rel[2], 0>>)
    THEN <<"src", new_rel[2], 0>>
    ELSE NoPath

Finalized(files, m, new_rel) ==
    [files |-> files, mapping |-> m, new_rel |-> new_rel]

\* the apply part of finalize_context for reference k: the file is brought
\* into the attachment directory and then renamed to the suggested name
\* (ensure_unique_path never returns the path of an existing file, so
\* asset_path != target_path); _hash_file is taken to succeed
relocate(files, m, src, k, download, dl, mv, cp, rn) ==
    LET skipped == is_remote_url(src) /\ ~download
        r == ensure_attachment_for_src(files, m, src, ~is_remote_url(src),
                                       dl, mv, cp)
        f1 == IF skipped THEN files ELSE r.files
        m1 == IF skipped THEN m ELSE r.mapping
        mapping_key == IF skipped THEN NoKey ELSE r.key
        new_rel == IF ~skipped /\ r.action # "error" /\ r.rel # NoPath
                   THEN r.rel ELSE src
        asset == asset_path(f1, new_rel)
        target_path == ensure_unique_path(f1, SuggestedNames[k])
        f2 == _try_move_file(f1, asset, target_path, rn)
    IN  IF asset # NoPath /\ rn = "moved"
        THEN Finalized(f2, update_mapping_target(m1, mapping_key, target_path, f2),
                       target_path)
        ELSE Finalized(f1, m1, new_rel)

InitApply ==
    /\ \E n \in 0..MaxRefs : refs \in [1..n -> SrcSet]
    /\ fs \in InitFiles
    /\ mappingFile \in InitMappings
    /\ acfg \in [mode : Modes, backup : BOOLEAN, download : BOOLEAN,
                 verbose : BOOLEAN]
    /\ docFile = refs /\ bakFile = NoBackup
    /\ mapping = {}
    /\ wpc = "start" /\ nfinal = 0 /\ new_parts = <<>> /\ messages = {}
    /\ SecondIdle /\ FnIdle
    /\ bases = <<>> /\ skipSet = {}
    /\ planFile = EmptyPlan /\ plan = EmptyPlan
    /\ pc = "off" /\ idx = 0 /\ saved = NoPath
    /\ mapping_changed = FALSE /\ success = FALSE /\ reused = FALSE
    /\ runs = 0 /\ entry = <<>> /\ fileOps = <<>>
    /\ fsAtBuild = {} /\ fsAtEntry = {}
    /\ ScanIdle /\ EnsureIdle /\ DocIdle

applyFrame == <<request, workerVars, scanVars, ensured, docVars, acfg, other,
               fnVars>>

\* the backup is written from the text just read, a failure is printed and
\* nothing else; the mapping is loaded
PdStart ==
    /\ wpc = "start"
    /\ \E bk \in WriteOutcomes :
          IF Relocating(acfg.mode) /\ acfg.backup
          THEN IF bk = "ok"
               THEN /\ bakFile' = [present |-> TRUE, text |-> docFile]
                    /\ messages' = messages
               ELSE /\ bakFile' = bakFile
                    /\ messages' = messages \cup {"backup_failed"}
          ELSE UNCHANGED <<bakFile, messages>>
    /\ mapping' = IF Relocating(acfg.mode) THEN mappingFile ELSE mapping
    /\ wpc' = "loop"
    /\ UNCHANGED <<applyFrame, fs, docFile, nfinal, new_parts>>

\* finalize_context for the next reference
PdFinalize ==
    /\ wpc = "loop"
    /\ nfinal < Len(refs)
    /\ nfinal' = nfinal + 1
    /\ IF Relocating(acfg.mode)
       THEN \E dl \in DownloadOutcomes, mv \in MoveOutcomes, cp \in CopyOutcomes,
               rn \in MoveOutcomes :
               LET f == relocate(fs, mapping, refs[nfinal + 1], nfinal + 1,
                                 acfg.download, dl, mv, cp, rn)
               IN  /\ fs' = f.files
                   /\ mapping' = f.mapping
                   /\ new_parts' = Append(new_parts, f.new_rel)
       ELSE UNCHANGED <<fs, mapping, new_parts>>
    /\ UNCHANGED <<applyFrame, docFile, bakFile, wpc, messages>>

\* batch_confirm_cb returned False: cancelled = True; break
PdCancel ==
    /\ wpc = "loop"
    /\ nfinal < Len(refs)
    /\ wpc' = "write"
    /\ UNCHANGED <<applyFrame, fs, mapping, docFile, bakFile, nfinal, new_parts,
                   messages>>

\* "".join(new_parts) after new_parts.append(text[cursor:])
NewText == new_parts \o SubSeq(refs, Len(new_parts) + 1, Len(refs))

\* the document is written when the text changed; mapping_changed of
\* process_document is never set (finalize_context assigns a local of its
\* own), so save_image_mapping is not reached; cfg.save_report is None
PdWriteBack ==
    /\ \/ wpc = "write"
       \/ wpc = "loop" /\ nfinal = Len(refs)
    /\ \E w \in WriteOutcomes :
          IF acfg.mode # "apply"
          THEN UNCHANGED <<docFile, messages>>
          ELSE IF NewText = refs
          THEN /\ docFile' = docFile
               /\ messages' = messages \cup
                                 (IF acfg.verbose THEN {"unchanged"} ELSE {})
          ELSE IF w = "ok"
          THEN /\ docFile' = NewText
               /\ messages' = messages \cup
                                 (IF acfg.verbose THEN {"written"} ELSE {})
          ELSE /\ docFile' = docFile
               /\ messages' = messages \cup {"write_failed"}
    /\ wpc' = "done"
    /\ UNCHANGED <<applyFrame, fs, mapping, bakFile, nfinal, new_parts>>

NextApply == PdStart \/ PdFinalize \/ PdCancel \/ PdWriteBack

SpecApply == InitApply /\ [][NextApply]_vars


\* C21: with cfg.backup set, whenever the document is overwritten the .bak
\* file exists and holds the text the document had before; and a run that
\* left the text as it was never prints the message of a failed write, while
\* a run whose write failed always does.
C21_BackupBeforeOverwrite ==
    /\ [][(acfg.backup /\ docFile' # docFile) =>
              bakFile = [present |-> TRUE, text |-> docFile]]_vars
    /\ []((wpc = "done" /\ acfg.mode = "apply") =>
              ("write_failed" \in messages <=>
                   (NewText # refs /\ docFile = refs)))

\* C22: in a preview run (mode dry-run or no-rename) no step of
\* process_document changes the files, the document, the .bak file, the
\* mapping file or the plan file.
C22_PreviewTouchesNothing ==
    [][acfg.mode \in {"dry-run", "no-rename"} =>
           UNCHANGED <<fs, docFile, bakFile, mappingFile, planFile>>]_vars

\* a preview with backup and download switched on has gone through a
\* document with a remote reference and a local one whose file exists
C22_Witness ==
    /\ wpc = "done" /\ acfg.mode = "dry-run"
    /\ acfg.backup /\ acfg.download
    /\ nfinal = Len(refs) /\ Len(refs) = 2
    /\ is_remote_url(refs[1]) /\ ~is_remote_url(refs[2])
    /\ Exists(fs, <<"src", "a", 0>>)

\* C29: when process_document has returned in apply mode, every reference of
\* the document whose source was rewritten names a file that exists.
C29_RewrittenRefsExist ==
    (wpc = "done" /\ acfg.mode = "apply") =>
        \A k \in 1..Len(docFile) :
            docFile[k] # refs[k] => Exists(fs, docFile[k])


\* ============================================ two apply requests at a time
\* apply_document hands every request to run_in_threadpool, and
\* _apply_all_in_tab starts a thread per click: two workers for the same
\* document (the same attachment directory) share the files, the plan file
\* and the mapping file and have their own locals.  The worker that is not
\* scheduled is kept in other; Switch hands the processor to it.
Locals ==
    [plan |-> plan, mapping |-> mapping, pc |-> pc, idx |-> idx,
     saved |-> saved, mapping_changed |-> mapping_changed,
     success |-> success, reused |-> reused, entry |-> entry,
     fileOps |-> fileOps, fsAtBuild |-> fsAtBuild, fsAtEntry |-> fsAtEntry]

Switch ==
    /\ runs < MaxRuns \/ other.pc # "idle"
    /\ other' = Locals
    /\ plan' = other.plan
    /\ mapping' = other.mapping
    /\ pc' = other.pc
    /\ idx' = other.idx
    /\ saved' = other.saved
    /\ mapping_changed' = other.mapping_changed
    /\ success' = other.success
    /\ reused' = other.reused
    /\ entry' = other.entry
    /\ fileOps' = other.fileOps
    /\ fsAtBuild' = other.fsAtBuild
    /\ fsAtEntry' = other.fsAtEntry
    /\ UNCHANGED <<request, document, scanVars, ensured, docVars, applyVars,
                   fnVars, fs, planFile, mappingFile, runs>>

InitTwo == Init /\ skipSet = {}

NextTwo == \/ ApplyReuse \/ ApplyBuild \/ Executor
           \/ ApplyFail \/ ApplyFinish \/ Switch

SpecTwo == InitTwo /\ [][NextTwo]_vars

Executing(p) == p \in {"exec", "dl_move", "persist"}

\* C23: at no time are two executions of a plan with items under way for one
\* attachment directory, so that no item has its download or move attempted
\* by two runs.
C23_OneExecutionAtATime ==
    /\ ~(/\ Executing(pc) /\ N >= 1
         /\ Executing(other.pc) /\ Len(other.plan.items) >= 1)
    /\ \A i \in 1..N :
          (i <= Len(other.fileOps) /\ plan.items[i].index = other.plan.items[i].index)
              => ~(fileOps[i] > 0 /\ other.fileOps[i] > 0)


\* ========================================================= safe_parse_json
\* A text is a sequence of tokens: the quote, ":" and "k" (the letters of the
\* key), and the characters a string value is made of, where "bt" is a run
\* of three backticks, "1" a digit and "x" any other letter.  White space is
\* left out: json.dumps is taken with compact separators and the fence
\* without the word json and the line breaks that the patterns skip.
MaxStr == 3

\* a run of three backticks
Backticks == "bt"

\* the double quote that opens and closes a string
Quote == "dq"

JsonChars == {"x", ",", "{", "}", "[", "]", Backticks, "1"}

\* the values json.loads returns; NoJson stands for None and for a raise
NoJson == [t |-> "none", s |-> <<>>, c |-> <<>>]

JNum(digits) == [t |-> "num", s |-> digits, c |-> <<>>]

JStr(chars) == [t |-> "str", s |-> chars, c |-> <<>>]

JArr(elems) == [t |-> "arr", s |-> <<>>, c |-> elems]

\* members: key, value, key, value, ...
JObj(members) == [t |-> "obj", s |-> <<>>, c |-> members]

Parsed(v, next) == [ok |-> TRUE, v |-> v, next |-> next]

NotParsed == [ok |-> FALSE, v |-> NoJson, next |-> 0]

RECURSIVE DigitsEnd(_, _)
DigitsEnd(t, i) ==
    IF i <= Len(t) /\ t[i] = "1" THEN DigitsEnd(t, i + 1) ELSE i

\* the index of the next token tok from i on, 0 when there is none
RECURSIVE IndexFrom(_, _, _)
IndexFrom(t, tok, i) ==
    IF i > Len(t) THEN 0
    ELSE IF t[i] = tok THEN i
    ELSE IndexFrom(t, tok, i + 1)

parse_string(t, i) ==
    LET close == IndexFrom(t, Quote, i + 1)
    IN  IF i <= Len(t) /\ t[i] = Quote /\ close # 0
        THEN Parsed(JStr(SubSeq(t, i + 1, close - 1)), close + 1)
        ELSE NotParsed

RECURSIVE parse_value(_, _)
RECURSIVE parse_elems(_, _, _)
RECURSIVE parse_members(_, _, _)
parse_value(t, i) ==
    IF i > Len(t) THEN NotParsed
    ELSE CASE t[i] = "1" ->
                  Parsed(JNum(SubSeq(t, i, DigitsEnd(t, i) - 1)), DigitsEnd(t, i))
           [] t[i] = Quote -> parse_string(t, i)
           [] t[i] = "[" ->
                  IF i + 1 <= Len(t) /\ t[i + 1] = "]"
                  THEN Parsed(JArr(<<>>), i + 2)
                  ELSE parse_elems(t, i + 1, <<>>)
           [] t[i] = "{" ->
                  IF i + 1 <= Len(t) /\ t[i + 1] = "}"
                  THEN Parsed(JObj(<<>>), i + 2)
                  ELSE parse_members(t, i + 1, <<>>)
           [] OTHER -> NotParsed

parse_elems(t, i, acc) ==
    LET r == parse_value(t, i)
    IN  IF ~r.ok \/ r.next > Len(t) THEN NotParsed
        ELSE IF t[r.next] = "," THEN parse_elems(t, r.next + 1, Append(acc, r.v))
        ELSE IF t[r.next] = "]" THEN Parsed(JArr(Append(acc, r.v)), r.next + 1)
        ELSE NotParsed

parse_members(t, i, acc) ==
    LET k == parse_string(t, i)
    IN  IF ~k.ok \/ k.next > Len(t) \/ t[k.next] # ":" THEN NotParsed
        ELSE LET r == parse_value(t, k.next + 1)
                 all == acc \o <<k.v, r.v>>
             IN  IF ~r.ok \/ r.next > Len(t) THEN NotParsed
                 ELSE IF t[r.next] = "," THEN parse_members(t, r.next + 1, all)
                 ELSE IF t[r.next] = "}" THEN Parsed(JObj(all), r.next + 1)
                 ELSE NotParsed

json_loads(t) ==
    LET r == parse_value(t, 1)
    IN  IF r.ok /\ r.next = Len(t) + 1 THEN r.v ELSE NoJson

json_dumps(chars) ==
    <<"{", Quote, "k", Quote, ":", Quote>> \o chars \o <<Quote, "}">>

\* re.sub(r",\s*([}\]])", r"\1", text)
RECURSIVE fix_trailing_commas(_, _)
fix_trailing_commas(t, i) ==
    IF i > Len(t) THEN <<>>
    ELSE IF t[i] = "," /\ i + 1 <= Len(t) /\ t[i + 1] \in {"}", "]"}
    THEN <<t[i + 1]>> \o fix_trailing_commas(t, i + 2)
    ELSE <<t[i]>> \o fix_trailing_commas(t, i + 1)

\* the first group of re.search(r"```(?:json)?\s*([\s\S]*?)\s*```", raw), as
\* <<found, inner>>
fence(raw) ==
    LET open == IndexFrom(raw, Backticks, 1)
        close == IF open = 0 THEN 0 ELSE IndexFrom(raw, Backticks, open + 1)
    IN  IF close = 0 THEN <<FALSE, <<>>>>
        ELSE <<TRUE, SubSeq(raw, open + 1, close - 1)>>

\* if raw.startswith("```"): the fence at the start and at the end is cut off
strip_fences(raw) ==
    IF Len(raw) > 0 /\ raw[1] = Backticks
    THEN LET r1 == SubSeq(raw, 2, Len(raw))
         IN  IF Len(r1) > 0 /\ r1[Len(r1)] = Backticks
             THEN SubSeq(r1, 1, Len(r1) - 1) ELSE r1
    ELSE raw

\* the first balanced {...}, braces inside strings not counted; <<>> for None
RECURSIVE extract_first_object(_, _, _, _, _)
extract_first_object(text, i, in_str, depth, start) ==
    IF i > Len(text) THEN <<>>
    ELSE IF in_str
    THEN extract_first_object(text, i + 1, text[i] # Quote, depth, start)
    ELSE IF text[i] = Quote
    THEN extract_first_object(text, i + 1, TRUE, depth, start)
    ELSE IF text[i] = "{"
    THEN extract_first_object(text, i + 1, FALSE, depth + 1,
                              IF depth = 0 THEN i ELSE start)
    ELSE IF text[i] = "}" /\ depth > 0
    THEN IF depth = 1 /\ start # 0
         THEN SubSeq(text, start, i)
         ELSE extract_first_object(text, i + 1, FALSE, depth - 1, start)
    ELSE extract_first_object(text, i + 1, FALSE, depth, start)

\* re.search(r"\{[\s\S]*?\}", raw)
first_braces(raw) ==
    LET open == IndexFrom(raw, "{", 1)
        close == IF open = 0 THEN 0 ELSE IndexFrom(raw, "}", open + 1)
    IN  IF close = 0 THEN <<>> ELSE SubSeq(raw, open, close)

safe_parse_json(s) ==
    LET f == fence(s)
        inner == json_loads(f[2])
        inner_fixed == json_loads(fix_trailing_commas(f[2], 1))
        raw == strip_fences(s)
        direct == json_loads(raw)
        balanced == extract_first_object(raw, 1, FALSE, 0, 0)
        candidate == IF balanced # <<>> THEN balanced ELSE first_braces(raw)
        fixed == json_loads(fix_trailing_commas(candidate, 1))
    IN  IF s = <<>> THEN NoJson
        ELSE IF f[1] /\ inner # NoJson THEN inner
        ELSE IF f[1] /\ inner_fixed # NoJson THEN inner_fixed
        ELSE IF direct # NoJson THEN direct
        ELSE IF candidate = <<>> THEN NoJson
        ELSE IF fixed # NoJson THEN fixed
        ELSE json_loads(candidate)

RECURSIVE CharSeqs(_)
CharSeqs(n) ==
    IF n = 0 THEN {<<>>}
    ELSE CharSeqs(n - 1)
         \cup {Append(c, x) : c \in {d \in CharSeqs(n - 1) : Len(d) = n - 1},
                              x \in JsonChars}

\* the reply texts: the object in a code fence, the object with a comma
\* before its closing brace
ReplyText(chars, how) ==
    IF how = "fence" THEN <<Backticks>> \o json_dumps(chars) \o <<Backticks>>
    ELSE <<"{", Quote, "k", Quote, ":", Quote>> \o chars \o <<Quote, ",", "}">>

InitJson ==
    /\ js \in [value : CharSeqs(MaxStr), how : {"fence", "trailing_comma"},
               pc : {"call"}, ret : {NoJson}]
    /\ nm = <<>> /\ http = <<>>
    /\ fs = {} /\ mapping = {}
    /\ WorkerIdle /\ ScanIdle /\ EnsureIdle /\ DocIdle /\ ApplyIdle /\ SecondIdle

fnFrame == <<request, fs, mapping, workerVars, document, scanVars, ensured,
             docVars, applyVars, other>>

ParseReply ==
    /\ js.pc = "call"
    /\ js' = [js EXCEPT !.pc = "done",
                        !.ret = safe_parse_json(ReplyText(js.value, js.how))]
    /\ UNCHANGED <<fnFrame, nm, http>>

NextJson == ParseReply

SpecJson == InitJson /\ [][NextJson]_vars

\* C24: for an object obj, safe_parse_json gives back obj for obj wrapped in
\* a code fence and for obj with a trailing comma, also when a string value
\* of obj holds commas, braces, brackets or backticks.
C24_RepairGivesObject ==
    js.pc = "done" => js.ret = JObj(<<JStr(<<"k">>), JStr(js.value)>>)

(***************************************************************************)
(* name_with_template and the two sanitizers.  A string is the sequence of *)
(* its characters; a template is a sequence whose elements are characters  *)
(* or one of the placeholders {title}, {intent}, {idx}.                    *)
(***************************************************************************)

\* phrases are built from at most MaxPieces pieces
MaxPieces == 3

\* a maximum length short enough to cut the names of the model
ShortLen == 3

\* the fallback name of sanitize_filename
IMAGE == <<"i", "m", "a", "g", "e">>

\* one of the image extensions of the two extension patterns
PngExt == <<".", "p", "n", "g">>

FORBIDDEN_CHARS == {"/", ":", "*", "?", Quote, "<", ">", "|"}

\* the brackets and quotes sanitize_filename deletes
BracketChars == {"(", ")", "'", Quote}

\* \w of the extension pattern's \b
WordChars == {"a", "p", "n", "g", "i", "m", "e", "_", "0", "1", "2"}

Pieces == {<<"a">>, <<" ">>, <<".">>, <<"_">>, <<"(">>, <<"/">>, <<"-">>, PngExt}

Without(s, chars) == SelectSeq(s, LAMBDA c : c \notin chars)

RECURSIVE py_lstrip(_, _)
py_lstrip(s, chars) ==
    IF s # <<>> /\ Head(s) \in chars THEN py_lstrip(Tail(s), chars) ELSE s

RECURSIVE py_rstrip(_, _)
py_rstrip(s, chars) ==
    IF s # <<>> /\ s[Len(s)] \in chars
    THEN py_rstrip(SubSeq(s, 1, Len(s) - 1), chars)
    ELSE s

\* WHITESPACE_RE.sub(rep, s): every run of blanks becomes rep
RECURSIVE whitespace_sub(_, _)
whitespace_sub(s, rep) ==
    IF s = <<>> THEN <<>>
    ELSE IF Head(s) = " "
         THEN <<rep>> \o whitespace_sub(py_lstrip(s, {" "}), rep)
         ELSE <<Head(s)>> \o whitespace_sub(Tail(s), rep)

\* replace(old, new) for single characters
Replaced(s, old, new) == [k \in 1..Len(s) |-> IF s[k] = old THEN new ELSE s[k]]

sanitize_filename(name) ==
    IF name = <<>> THEN IMAGE
    ELSE LET kept == Without(Without(name, BracketChars), FORBIDDEN_CHARS)
             out  == whitespace_sub(py_rstrip(py_lstrip(kept, {" ", "."}), {" ", "."}), "_")
         IN  IF out = <<>> THEN IMAGE ELSE out

sanitize_intent_for_language(text, intent_language) ==
    LET raw == py_rstrip(py_lstrip(text, {" "}), {" "})
    IN  sanitize_filename(
            IF intent_language = "en"
            THEN whitespace_sub(Replaced(raw, "-", " "), " ")
            ELSE raw)

\* the extension pattern matches at position k
ExtAt(s, k) == k + Len(PngExt) - 1 <= Len(s)
               /\ SubSeq(s, k, k + Len(PngExt) - 1) = PngExt

\* re.sub of the extension followed by a word boundary
RECURSIVE strip_extensions(_)
strip_extensions(s) ==
    IF s = <<>> THEN <<>>
    ELSE IF ExtAt(s, 1) /\ (Len(s) = Len(PngExt)
                              \/ s[Len(PngExt) + 1] \notin WordChars)
         THEN strip_extensions(SubSeq(s, Len(PngExt) + 1, Len(s)))
         ELSE <<Head(s)>> \o strip_extensions(Tail(s))

\* re.sub of the extension at the end of the name
strip_last_extension(s) ==
    IF Len(s) >= Len(PngExt) /\ ExtAt(s, Len(s) - Len(PngExt) + 1)
    THEN SubSeq(s, 1, Len(s) - Len(PngExt))
    ELSE s

\* f"{n:0{w}d}" for a one-digit n
fmt_num(n, w) ==
    LET digits == <<"0", "1", "2", "3", "4", "5", "6", "7", "8", "9">>
    IN  [k \in 1..(IF w > 1 THEN w ELSE 1) |->
             IF k < w THEN "0" ELSE digits[n + 1]]

\* the placeholders replaced by their values, the other characters kept
RECURSIVE fill_template(_, _, _, _)
fill_template(tmpl, title, intent_clean, idx_text) ==
    IF tmpl = <<>> THEN <<>>
    ELSE (CASE Head(tmpl) = "{title}"  -> title
            [] Head(tmpl) = "{intent}" -> intent_clean
            [] Head(tmpl) = "{idx}"    -> idx_text
            [] OTHER                   -> <<Head(tmpl)>>)
         \o fill_template(Tail(tmpl), title, intent_clean, idx_text)

name_with_template(template, title, image_idx, intent_phrase, seq_width, max_len, intent_language) ==
    LET filled == fill_template(template, title, strip_extensions(intent_phrase),
                                fmt_num(image_idx, seq_width))
        out    == strip_last_extension(
                      sanitize_intent_for_language(filled, intent_language))
        cut    == SubSeq(out, 1, IF Len(out) < max_len THEN Len(out) ELSE max_len)
    IN  py_rstrip(cut, {" ", ".", "_"})

Templates == {<<"{intent}">>, <<"{title}", "_", "{intent}">>,
              <<"{idx}", "{intent}">>, <<"{title}", "_", "{idx}">>}

RECURSIVE Phrases(_)
Phrases(n) ==
    IF n = 0 THEN {<<>>}
    ELSE Phrases(n - 1) \cup {p \o x : p \in Phrases(n - 1), x \in Pieces}

InitName ==
    /\ nm \in [template : Templates, title : {<<>>, <<"a">>}, img_idx : {1, 2},
               intent : Phrases(MaxPieces),
               max_len : {ShortLen, 80},
               lang : {"auto", "en"}, pc : {"call"}, ret : {<<>>},
               again : {<<>>}]
    /\ js = <<>> /\ http = <<>>
    /\ fs = {} /\ mapping = {}
    /\ WorkerIdle /\ ScanIdle /\ EnsureIdle /\ DocIdle /\ ApplyIdle /\ SecondIdle

\* the call with the --seq-width default of two digits
NameOf(r) == name_with_template(r.template, r.title, r.img_idx, r.intent, 2,
                                r.max_len, r.lang)

\* the first call
NameCall ==
    /\ nm.pc = "call"
    /\ nm' = [nm EXCEPT !.pc = "named", !.ret = NameOf(nm)]
    /\ UNCHANGED <<fnFrame, js, http>>

\* a second call with the same arguments
NameAgain ==
    /\ nm.pc = "named"
    /\ nm' = [nm EXCEPT !.pc = "done", !.again = NameOf(nm)]
    /\ UNCHANGED <<fnFrame, js, http>>

NextName == NameCall \/ NameAgain

SpecName == InitName /\ [][NextName]_vars

\* C25: for fixed arguments name_with_template gives the same name on every
\* call, the name is at most max_len characters long, and sanitize_filename
\* applied to the name gives the name back.
C25_NameStable ==
    nm.pc = "done" =>
        /\ nm.again = nm.ret
        /\ Len(nm.ret) <= nm.max_len
        /\ sanitize_filename(nm.ret) = nm.ret

(***************************************************************************)
(* call_openai_chat: the retry loop around requests.post.  The error of    *)
(* the k-th request is named k; NoError is None.                           *)
(***************************************************************************)

\* the largest max_retries of a call
MaxRetries == 2

NoError == 0

\* an error left in _LAST_LLM_ERROR by an earlier call
StaleError == MaxRetries + 2

Contents == {"c1", "c2"}

InitHttp ==
    /\ http \in [max_retries : 0..MaxRetries, expect_json : BOOLEAN,
                 siliconflow : BOOLEAN,
                 recorded : {NoError, StaleError},
                 response_format : {FALSE}, attempt : {0}, last_err : {NoError},
                 log : {<<>>}, pc : {"enter"}, ret : {"None"}]
    /\ js = <<>> /\ nm = <<>>
    /\ fs = {} /\ mapping = {}
    /\ WorkerIdle /\ ScanIdle /\ EnsureIdle /\ DocIdle /\ ApplyIdle /\ SecondIdle

\* set_last_llm_error(None) and the payload before the loop
HttpEnter ==
    /\ http.pc = "enter"
    /\ http' = [http EXCEPT !.pc = "loop", !.recorded = NoError,
                   !.response_format = http.expect_json /\ http.siliconflow]
    /\ UNCHANGED <<fnFrame, js, nm>>

\* the loop has an attempt left
Attempting == http.pc = "loop" /\ http.attempt < http.max_retries + 1

\* a request answered with a usable body: its content is returned
HttpOk ==
    /\ Attempting
    /\ \E c \in Contents :
          http' = [http EXCEPT !.log = Append(@, c), !.ret = c, !.pc = "done"]
    /\ UNCHANGED <<fnFrame, js, nm>>

\* SiliconFlow rejects response_format (is_siliconflow(base) and the error
\* payload carries one of the codes 20012, 20015, 20016, 20024, 20029): the
\* field is dropped and the loop continues without set_last_llm_error
HttpFormatFallback ==
    /\ Attempting
    /\ http.siliconflow /\ http.response_format
    /\ http' = [http EXCEPT !.log = Append(@, "format_rejected"),
                            !.last_err = http.attempt + 1,
                            !.response_format = FALSE,
                            !.attempt = @ + 1]
    /\ UNCHANGED <<fnFrame, js, nm>>

\* any other exception of the attempt
HttpFail ==
    /\ Attempting
    /\ http' = [http EXCEPT !.log = Append(@, "failed"),
                            !.last_err = http.attempt + 1,
                            !.recorded = http.attempt + 1,
                            !.attempt = @ + 1]
    /\ UNCHANGED <<fnFrame, js, nm>>

\* the loop is exhausted
HttpGiveUp ==
    /\ http.pc = "loop" /\ http.attempt >= http.max_retries + 1
    /\ http' = [http EXCEPT !.pc = "done", !.ret = "None",
                   !.recorded = IF http.last_err # NoError /\ @ = NoError
                                THEN http.last_err ELSE @]
    /\ UNCHANGED <<fnFrame, js, nm>>

NextHttp == HttpEnter \/ HttpOk \/ HttpFormatFallback \/ HttpFail \/ HttpGiveUp

SpecHttp == InitHttp /\ [][NextHttp]_vars

\* C26: call_openai_chat makes at most max_retries + 1 requests; it returns
\* the content of the first successful response and makes no further request;
\* when every request has failed it returns None and the error of the last
\* request is the one recorded for get_last_llm_error.
C26_RetryLoop ==
    /\ http # <<>> => Len(http.log) <= http.max_retries + 1
    /\ (http # <<>> /\ http.pc = "done") =>
          LET oks == {k \in 1..Len(http.log) : http.log[k] \in Contents}
          IN  IF oks # {}
              THEN /\ oks = {Len(http.log)}
                   /\ http.ret = http.log[Len(http.log)]
              ELSE /\ http.ret = "None"
                   /\ Len(http.log) = http.max_retries + 1
                   /\ http.recorded = Len(http.log)

====
